---- MODULE Spec2Model ----
(***************************************************************************)
(* Inventory analysis: the daily batch run (daily_analysis.main driving    *)
(* InventoryAnalyzer.run_full_analysis) and the dashboard's statistics,    *)
(* warehouse breakdown and anomaly detector (streamlit_dashboard).         *)
(*                                                                         *)
(* Floating-point values are tagged records:                               *)
(*   [k |-> "num", v |-> n]   a finite number                              *)
(*   [k |-> "nan", v |-> 0]   NaN, pandas' null                            *)
(*   [k |-> "inf", v |-> s]   +inf (s = 1) or -inf (s = -1)                *)
(* Quantities are integers, so sums and differences are exact.  A rounded  *)
(* percentage (round(2), "+.1f") is kept as an integer number of           *)
(* hundredths or tenths of a percent; ties round to even.  Snapshot dates  *)
(* are day numbers.  Ratios are compared exactly; binary rounding of a     *)
(* quotient is not modelled, and the quantities and thresholds used below  *)
(* are ones on which the exact and the binary comparison agree.            *)
(***************************************************************************)
EXTENDS Integers, Sequences, FiniteSets, TLC

\* Largest number of rows in the data file.
MaxRecords == 3

Items == {"A001", "A002"}
Warehouses == {"W1", "W2"}
\* An empty cell of the 倉庫代號 column, which read_excel reads as NaN.
NoWarehouse == ""
Dates == {1, 2, 3}
\* Raw cells of the quantity column: a number, or a text that is no number.
Cell(n) == [k |-> "num", v |-> n]
TextCell == [k |-> "text", v |-> 0]
\* Ascending order of the string keys, as pandas sorts group keys.
KeyOrder == <<"A001", "A002", "W1", "W2">>
\* One product name per item code.
NameOf == [i \in Items |-> IF i = "A001" THEN "bolt" ELSE "nut"]

Num(n) == [k |-> "num", v |-> n]
NaN == [k |-> "nan", v |-> 0]
PosInf == [k |-> "inf", v |-> 1]
NegInf == [k |-> "inf", v |-> -1]

\* pd.isna: true of NaN only, an infinity is not null.
IsNa(x) == x.k = "nan"

\* pd.to_numeric(errors='coerce'): a non-numeric cell becomes NaN.
ToNumeric(c) == IF c.k = "num" THEN Num(c.v) ELSE NaN

Rank(key) == CHOOSE i \in 1..Len(KeyOrder) : KeyOrder[i] = key

\* Series.unique(): distinct values in order of first appearance.
RECURSIVE Unique(_)
Unique(s) ==
  IF s = <<>> THEN <<>>
  ELSE LET init == Unique(SubSeq(s, 1, Len(s) - 1))
           last == s[Len(s)]
       IN IF \E i \in 1..Len(init) : init[i] = last THEN init
          ELSE Append(init, last)

Column(df, f) == [i \in 1..Len(df) |-> df[i][f]]

\* The group keys of a groupby (sort=True): ascending.
RECURSIVE SortedDates(_)
SortedDates(S) ==
  IF S = {} THEN <<>>
  ELSE LET m == CHOOSE x \in S : \A y \in S : x <= y
       IN <<m>> \o SortedDates(S \ {m})

RECURSIVE SortedKeys(_)
SortedKeys(S) ==
  IF S = {} THEN <<>>
  ELSE LET m == CHOOSE x \in S : \A y \in S : Rank(x) <= Rank(y)
       IN <<m>> \o SortedKeys(S \ {m})

\* GroupBy.sum(): NaN is skipped, so the sum of an all-NaN group is 0.
RECURSIVE GroupSum(_)
GroupSum(rows) ==
  IF rows = <<>> THEN 0
  ELSE (IF IsNa(Head(rows).qty) THEN 0 ELSE Head(rows).qty.v) + GroupSum(Tail(rows))

\* GroupBy.count(): the number of non-null cells.
RECURSIVE GroupCount(_)
GroupCount(rows) ==
  IF rows = <<>> THEN 0
  ELSE (IF IsNa(Head(rows).qty) THEN 0 ELSE 1) + GroupCount(Tail(rows))

\* Integer nearest to n / d, ties to even (d # 0).
RoundDiv(n, d) ==
  LET nn == IF d < 0 THEN -n ELSE n
      dd == IF d < 0 THEN -d ELSE d
      q == nn \div dd
      r == nn % dd
  IN IF 2 * r < dd THEN q
     ELSE IF 2 * r > dd THEN q + 1
     ELSE IF q % 2 = 0 THEN q ELSE q + 1

\* groupby('倉庫代號') (dropna=True) and nunique(): rows whose key is NaN belong
\* to no group and are not counted.
WarehouseKeys(rows) == {rows[i].wh : i \in 1..Len(rows)} \ {NoWarehouse}

RowsWhere(df, f, key) == SelectSeq(df, LAMBDA r : r[f] = key)

Abs(n) == IF n < 0 THEN -n ELSE n

\* Every arrangement of the rows of a frame.
Arrangements(s) ==
  {[i \in 1..Len(s) |-> s[p[i]]] :
     p \in {q \in [1..Len(s) -> 1..Len(s)] :
              \A i, j \in 1..Len(s) : q[i] = q[j] => i = j}}

SortAscending(s) ==
  {t \in Arrangements(s) : \A i \in 2..Len(t) : t[i - 1].total <= t[i].total}

SortNothing(s) == Arrangements(s)

\* DataFrame.sort_values('總庫存量', ascending=False), kind='quicksort': the
\* totals come out non-increasing; the sort is not stable, so rows of equal
\* total may come out in any order.  The set of frames it can return.
SortDescending(s) ==
  {t \in Arrangements(s) : \A i \in 2..Len(t) : t[i - 1].total >= t[i].total}

\* load_data: the cleaning of the frame read from the file.
CleanFrame(rows) ==
  [i \in 1..Len(rows) |->
     [item |-> rows[i].item, name |-> rows[i].name, wh |-> rows[i].wh,
      date |-> rows[i].date, qty |-> ToNumeric(rows[i].qty)]]

DailyFirst(df) ==
  LET ds == SortedDates({df[i].date : i \in 1..Len(df)})
  IN [i \in 1..Len(ds) |->
        [date |-> ds[i],
         qty |-> GroupSum(SubSeq(RowsWhere(df, "date", ds[i]), 1, 1))]]

\* groupby('爬取日期')[quantity].sum().reset_index(): one row per date, ascending.
DailySum(df) ==
  LET ds == SortedDates({df[i].date : i \in 1..Len(df)})
  IN [i \in 1..Len(ds) |->
        [date |-> ds[i], qty |-> GroupSum(RowsWhere(df, "date", ds[i]))]]

\* (change / previous * 100).round(2), in hundredths of a percent.  change is a
\* float (NaN in the first row), previous an integer total.
ChangeRate(change, previous) ==
  IF IsNa(change) THEN NaN
  ELSE IF previous = 0
       THEN (IF change.v = 0 THEN NaN ELSE IF change.v > 0 THEN PosInf ELSE NegInf)
       ELSE Num(RoundDiv(change.v * 10000, previous))

basic_statistics(df) ==
  [rows |-> Len(df),
   items |-> Cardinality({df[i].item : i \in 1..Len(df)}),
   names |-> Cardinality({df[i].name : i \in 1..Len(df)}),
   warehouses |-> Cardinality(WarehouseKeys(df)),
   days |-> Cardinality({df[i].date : i \in 1..Len(df)}),
   first |-> DailySum(df)[1].date,
   last |-> DailySum(df)[Len(DailySum(df))].date]

\* mean().round(2) of a group, in hundredths; NaN for a group without numbers.
GroupMean(rows) ==
  IF GroupCount(rows) = 0 THEN NaN
  ELSE Num(RoundDiv(GroupSum(rows) * 100, GroupCount(rows)))

\* The set of frames warehouse_analysis can return.
warehouse_analysis(df) ==
  LET keys == SortedKeys(WarehouseKeys(df))
      grouped ==
        [i \in 1..Len(keys) |->
           LET rows == RowsWhere(df, "wh", keys[i])
           IN [wh |-> keys[i], total |-> GroupSum(rows), mean |-> GroupMean(rows),
               count |-> GroupCount(rows),
               nunique |-> Cardinality({rows[j].item : j \in 1..Len(rows)})]]
  IN SortDescending(grouped)

\* The frame is daily_inventory; cols tells whether the 變化量 and 變化率(%)
\* columns were added (only with more than one date).
trend_analysis(df) ==
  LET daily == DailySum(df)
      n == Len(daily)
      change(i) == IF i = 1 THEN NaN ELSE Num(daily[i].qty - daily[i - 1].qty)
  IN IF n > 1
     THEN [cols |-> TRUE,
           rows |-> [i \in 1..n |->
                       [date |-> daily[i].date, qty |-> daily[i].qty,
                        change |-> change(i),
                        rate |-> IF i = 1 THEN NaN
                                 ELSE ChangeRate(change(i), daily[i - 1].qty)]]]
     ELSE [cols |-> FALSE,
           rows |-> [i \in 1..n |-> [date |-> daily[i].date, qty |-> daily[i].qty]]]

LatestDate(df) == CHOOSE d \in {df[i].date : i \in 1..Len(df)} :
                    \A i \in 1..Len(df) : df[i].date <= d

\* The set of frames product_analysis can return.
product_analysis(df) ==
  LET latest == RowsWhere(df, "date", LatestDate(df))
      keys == SortedKeys({latest[i].item : i \in 1..Len(latest)})
      grouped ==
        [i \in 1..Len(keys) |->
           LET rows == RowsWhere(latest, "item", keys[i])
           IN [item |-> keys[i], name |-> NameOf[keys[i]], total |-> GroupSum(rows),
               warehouses |-> Len(SelectSeq(rows, LAMBDA r : r.wh # NoWarehouse))]]
  IN SortDescending(grouped)

zero_inventory(products) == SelectSeq(products, LAMBDA r : r.total = 0)

\* product_data: the item's own per-date totals, ascending by date.
ProductData(df, product) == DailySum(RowsWhere(df, "item", product))

\* pct_change() * 100 of row i, kept exact as the fraction n / d.
PctChange(pdata, i) ==
  IF i = 1 THEN [k |-> "nan", n |-> 0, d |-> 1]
  ELSE LET cur == pdata[i].qty
           prev == pdata[i - 1].qty
       IN IF prev = 0
          THEN (IF cur = 0 THEN [k |-> "nan", n |-> 0, d |-> 1]
                ELSE [k |-> "inf", n |-> (IF cur > 0 THEN 1 ELSE -1), d |-> 1])
          ELSE [k |-> "num", n |-> (cur - prev) * 100, d |-> prev]

SmallChange(p, threshold) ==
  p.k = "num" /\ Abs(p.n) < threshold * Abs(p.d)

\* abs(rate) > threshold: false of NaN, true of an infinity.
LargeChange(p, threshold) ==
  \/ p.k = "inf"
  \/ p.k = "num" /\ Abs(p.n) > threshold * Abs(p.d)

\* f"{rate:+.1f}%": tenths of a percent, or a signed infinity.
FormatRate(p) ==
  IF p.k = "inf" THEN (IF p.n > 0 THEN PosInf ELSE NegInf)
  ELSE Num(RoundDiv(p.n * 10, p.d))

\* The events of one item, in date order.
RECURSIVE ProductEvents(_, _, _, _)
ProductEvents(product, pdata, i, threshold) ==
  IF i > Len(pdata) THEN <<>>
  ELSE LET p == PctChange(pdata, i)
           rest == ProductEvents(product, pdata, i + 1, threshold)
       IN IF LargeChange(p, threshold) /\ p.k # "nan"
          THEN <<[item |-> product, date |-> pdata[i].date, rate |-> FormatRate(p),
                  qty |-> pdata[i].qty]>> \o rest
          ELSE rest

RECURSIVE CollectEvents(_, _, _)
CollectEvents(df, products, threshold) ==
  IF products = <<>> THEN <<>>
  ELSE LET pdata == ProductData(df, Head(products))
       IN (IF Len(pdata) > 1 THEN ProductEvents(Head(products), pdata, 1, threshold)
           ELSE <<>>)
          \o CollectEvents(df, Tail(products), threshold)

\* The threshold written into anomaly_detection.
AnalyzerThreshold == 50

\* calculate_basic_stats of the dashboard; 總庫存量 is the sum over the latest
\* date (Series.sum skips NaN).
calculate_basic_stats(df) ==
  [rows |-> Len(df),
   items |-> Cardinality({df[i].item : i \in 1..Len(df)}),
   names |-> Cardinality({df[i].name : i \in 1..Len(df)}),
   warehouses |-> Cardinality(WarehouseKeys(df)),
   days |-> Cardinality({df[i].date : i \in 1..Len(df)}),
   latest |-> LatestDate(df),
   total |-> GroupSum(RowsWhere(df, "date", LatestDate(df)))]

\* warehouse_stats of create_warehouse_chart: the latest date by warehouse,
\* sorted ascending by total.  The set of frames it can return.
create_warehouse_chart(df) ==
  LET latest == RowsWhere(df, "date", LatestDate(df))
      keys == SortedKeys(WarehouseKeys(latest))
      grouped ==
        [i \in 1..Len(keys) |->
           LET rows == RowsWhere(latest, "wh", keys[i])
           IN [wh |-> keys[i], total |-> GroupSum(rows),
               nunique |-> Cardinality({rows[j].item : j \in 1..Len(rows)})]]
  IN SortAscending(grouped)

\* The events of anomaly_detection carry one more field, 類型, always the same.
WithType(events) ==
  [i \in 1..Len(events) |->
     [item |-> events[i].item, date |-> events[i].date, type |-> "large change",
      rate |-> events[i].rate, qty |-> events[i].qty]]

anomaly_detection_three_dates(df) ==
  IF Cardinality({df[i].date : i \in 1..Len(df)}) > 2
  THEN WithType(CollectEvents(df, Unique(Column(df, "item")), AnalyzerThreshold))
  ELSE <<>>

anomaly_detection(df) ==
  IF Cardinality({df[i].date : i \in 1..Len(df)}) > 1
  THEN WithType(CollectEvents(df, Unique(Column(df, "item")), AnalyzerThreshold))
  ELSE <<>>

detect_anomalies(df, threshold) ==
  CollectEvents(df, Unique(Column(df, "item")), threshold)

ShortageRate == -10
OverstockRate == 20

Suggestion(rule, count, most, least) ==
  [rule |-> rule, count |-> count, most |-> most, least |-> least]

\* Series.idxmax() / idxmin(): the label of the first row holding the extreme.
IdxMax(ws) ==
  ws[CHOOSE i \in 1..Len(ws) :
       /\ \A j \in 1..Len(ws) : ws[j].total <= ws[i].total
       /\ \A j \in 1..(i - 1) : ws[j].total < ws[i].total].wh

IdxMin(ws) ==
  ws[CHOOSE i \in 1..Len(ws) :
       /\ \A j \in 1..Len(ws) : ws[j].total >= ws[i].total
       /\ \A j \in 1..(i - 1) : ws[j].total > ws[i].total].wh

\* latest_change < -10 and latest_change > 20 on a float in hundredths.
RateBelow(x, bound) == (x.k = "inf" /\ x.v < 0) \/ (x.k = "num" /\ x.v < bound * 100)
RateAbove(x, bound) == (x.k = "inf" /\ x.v > 0) \/ (x.k = "num" /\ x.v > bound * 100)

RestockRule(results) ==
  IF "zero_inventory" \in DOMAIN results /\ Len(results["zero_inventory"]) > 0
  THEN <<Suggestion("restock", Len(results["zero_inventory"]), "", "")>>
  ELSE <<>>

InvestigateRule(results) ==
  IF "anomalies" \in DOMAIN results /\ Len(results["anomalies"]) > 0
  THEN <<Suggestion("investigate", Len(results["anomalies"]), "", "")>>
  ELSE <<>>

RebalanceRule(results) ==
  IF "warehouse_stats" \in DOMAIN results /\ Len(results["warehouse_stats"]) > 1
  THEN <<Suggestion("rebalance", 0, IdxMax(results["warehouse_stats"]),
                    IdxMin(results["warehouse_stats"]))>>
  ELSE <<>>

TrendRule(results) ==
  IF "daily_trend" \in DOMAIN results /\ Len(results["daily_trend"].rows) > 1
  THEN LET rows == results["daily_trend"].rows
           latest_change == rows[Len(rows)].rate
       IN IF IsNa(latest_change) THEN <<>>
          ELSE IF RateBelow(latest_change, ShortageRate)
               THEN <<Suggestion("shortage", 0, "", "")>>
               ELSE IF RateAbove(latest_change, OverstockRate)
                    THEN <<Suggestion("overstock", 0, "", "")>>
                    ELSE <<>>
  ELSE <<>>

DefaultAlways(fired) == Append(fired, Suggestion("normal", 0, "", ""))

\* if not suggestions: the default entry.
DefaultRule(fired) ==
  IF fired = <<>> THEN <<Suggestion("normal", 0, "", "")>> ELSE fired

generate_suggestions(results) ==
  DefaultRule(RestockRule(results) \o InvestigateRule(results)
              \o RebalanceRule(results) \o TrendRule(results))

\* A table cell: "-" for a null value, else the formatted number.
Dash == [k |-> "dash", v |-> 0]
ChangeCell(x) == IF IsNa(x) THEN Dash ELSE x
\* f"{rate:+.1f}%" of a rate held in hundredths: tenths, or a signed infinity.
RateCell(x) ==
  IF IsNa(x) THEN Dash
  ELSE IF x.k = "inf" THEN x ELSE Num(RoundDiv(x.v, 10))

\* The report shows at most this many anomalies.
ReportAnomalyCap == 20

\* The trend section reads the 變化量 column of every row: KeyError without it.
ReportRaises(results) ==
  /\ "daily_trend" \in DOMAIN results
  /\ ~results["daily_trend"].cols
  /\ Len(results["daily_trend"].rows) > 0

generate_report(results) ==
  LET rows == results["daily_trend"].rows
      anomalies == results["anomalies"]
      shown == IF Len(anomalies) > ReportAnomalyCap THEN ReportAnomalyCap
               ELSE Len(anomalies)
  IN [trend_table |->
        [i \in 1..Len(rows) |->
           [date |-> rows[i].date, total |-> rows[i].qty,
            change |-> ChangeCell(rows[i].change), rate |-> RateCell(rows[i].rate)]],
      anomaly_table |-> SubSeq(anomalies, 1, shown),
      more |-> Len(anomalies) - shown,
      suggestions |-> generate_suggestions(results)]

----------------------------------------------------------------------------
VARIABLES
  file,             \* rows of the newest data file
  pc,               \* position of daily_analysis.main / of the dashboard
  df,               \* InventoryAnalyzer.df after load_data
  analysis_results, \* InventoryAnalyzer.analysis_results
  charts,           \* chart images written by this run
  reports,          \* report files written by this run
  report,           \* content of the report written, <<>> if none
  notifications,    \* success flags of the send_notification calls
  returned,         \* <<>> while main runs, then <<its return value>>
  steps,            \* the steps main has begun so far, in order
  error,            \* how main failed: the exception it caught, "" if none
  dash_df,          \* the frame the dashboard loaded
  threshold,        \* the dashboard's slider
  dash_stats,       \* the dashboard's calculate_basic_stats result
  dash_warehouses,  \* the frame behind the dashboard's warehouse chart
  dash_anomalies    \* the dashboard's detect_anomalies result

vars == <<file, pc, df, analysis_results, charts, reports, report, notifications,
          returned, steps, error, dash_df, threshold, dash_stats,
          dash_warehouses, dash_anomalies>>

Records(items, warehouses, dates, cells) ==
  {[item |-> i, name |-> NameOf[i], wh |-> w, date |-> d, qty |-> q] :
     i \in items, w \in warehouses, d \in dates, q \in cells}

\* Families of data files: two warehouses, two dates; one warehouse, three
\* dates and non-numeric cells; one warehouse, three dates and changes on both
\* sides of the thresholds; one item in one warehouse, for main's control flow;
\* one item in two warehouses with non-numeric and empty cells.
StockRecords == Records(Items, Warehouses, {1, 2}, {Cell(0), Cell(100)})
TrendRecords == Records(Items, {"W1"}, Dates, {Cell(0), Cell(100), TextCell})
ChangeRecords == Records(Items, {"W1"}, Dates, {Cell(0), Cell(100), Cell(160)})
FlowRecords == Records({"A001"}, {"W1"}, {1, 2}, {Cell(0), Cell(100)})
WarehouseRecords ==
  Records({"A001"}, Warehouses \cup {NoWarehouse}, {1, 2},
          {Cell(0), Cell(100), TextCell})

Files(records) == UNION {[1..n -> records] : n \in 0..MaxRecords}

NoResults == [key \in {} |-> 0]

SliderDefault == 50
Thresholds == {20, SliderDefault, 70, 100}

Idle ==
  /\ df = <<>>
  /\ analysis_results = NoResults
  /\ charts = 0
  /\ reports = 0
  /\ report = <<>>
  /\ notifications = <<>>
  /\ returned = <<>>
  /\ steps = <<>>
  /\ error = ""
  /\ dash_df = <<>>
  /\ threshold = SliderDefault
  /\ dash_stats = <<>>
  /\ dash_warehouses = <<>>
  /\ dash_anomalies = <<>>

Init ==
  /\ file \in Files(StockRecords)
  /\ pc = "main"
  /\ Idle

InitTrend ==
  /\ file \in Files(TrendRecords)
  /\ pc = "main"
  /\ Idle

InitFlow ==
  /\ file \in Files(FlowRecords)
  /\ pc = "main"
  /\ Idle

InitDashboard ==
  /\ file \in Files(ChangeRecords)
  /\ pc = "dashboard"
  /\ Idle

\* The batch run or the dashboard, started on the same files.
InitEither ==
  /\ file \in Files(WarehouseRecords)
  /\ pc \in {"main", "dashboard"}
  /\ Idle

analyzer == <<df, analysis_results, charts, reports, report>>
dashboard == <<dash_df, threshold, dash_stats, dash_warehouses, dash_anomalies>>
batch == <<analyzer, notifications, returned, steps, error>>

FailUnnotified(e) ==
  /\ returned' = <<FALSE>>
  /\ steps' = Append(steps, pc)
  /\ error' = e
  /\ pc' = "done"
  /\ UNCHANGED <<file, notifications, dashboard>>

\* main's except clause, and its two early failure returns; e is the exception
\* caught, or the reason of the early return.
Fail(e) ==
  /\ notifications' = Append(notifications, FALSE)
  /\ returned' = <<FALSE>>
  /\ steps' = Append(steps, pc)
  /\ error' = e
  /\ pc' = "done"
  /\ UNCHANGED <<file, dashboard>>

Step(next) ==
  /\ steps' = Append(steps, pc)
  /\ pc' = next
  /\ UNCHANGED <<file, notifications, returned, error, dashboard>>

\* find_latest_data_file: no Excel file in the directory.
NoDataFile ==
  /\ pc = "main"
  /\ Fail("no data file")
  /\ UNCHANGED analyzer

FindDataFile ==
  /\ pc = "main"
  /\ Step("archive")
  /\ UNCHANGED analyzer

\* archive_old_reports moves reports of earlier runs only.
ArchiveOldReports ==
  /\ pc = "archive"
  /\ Step("load")
  /\ UNCHANGED analyzer

ArchiveRaises ==
  /\ pc = "archive"
  /\ Fail("OSError")
  /\ UNCHANGED analyzer

\* load_data returns True.
LoadData ==
  /\ pc = "load"
  /\ df' = CleanFrame(file)
  /\ Step("basic")
  /\ UNCHANGED <<analysis_results, charts, reports, report>>

\* load_data catches the error (unreadable file, missing column, bad date) and
\* returns False; run_full_analysis returns False.
LoadDataFails ==
  /\ pc = "load"
  /\ Fail("load failed")
  /\ UNCHANGED analyzer

Store(key, value) == analysis_results' = (key :> value) @@ analysis_results

\* On an empty frame min() is NaT, and NaT.strftime raises ValueError.
BasicStatistics ==
  /\ pc = "basic"
  /\ IF Len(df) = 0
     THEN Fail("ValueError") /\ UNCHANGED analyzer
     ELSE /\ Store("basic_stats", basic_statistics(df))
          /\ Step("warehouse")
          /\ UNCHANGED <<df, charts, reports, report>>

WarehouseAnalysis ==
  /\ pc = "warehouse"
  /\ \E stats \in warehouse_analysis(df) : Store("warehouse_stats", stats)
  /\ Step("trend")
  /\ UNCHANGED <<df, charts, reports, report>>

TrendAnalysis ==
  /\ pc = "trend"
  /\ Store("daily_trend", trend_analysis(df))
  /\ Step("product")
  /\ UNCHANGED <<df, charts, reports, report>>

ProductAnalysis ==
  /\ pc = "product"
  /\ \E products \in product_analysis(df) :
       analysis_results' =
         ("product_stats" :> products)
         @@ ("zero_inventory" :> zero_inventory(products))
         @@ analysis_results
  /\ Step("anomaly")
  /\ UNCHANGED <<df, charts, reports, report>>

AnomalyDetection ==
  /\ pc = "anomaly"
  /\ Store("anomalies", anomaly_detection(df))
  /\ Step("visualize")
  /\ UNCHANGED <<df, charts, reports, report>>

\* Both charts are saved.
GenerateVisualizations ==
  /\ pc = "visualize"
  /\ charts' = 2
  /\ Step("report")
  /\ UNCHANGED <<df, analysis_results, reports, report>>

\* mkdir or a savefig raises: before the first chart, or after it.
VisualizationsRaise ==
  /\ pc = "visualize"
  /\ \E saved \in {0, 1} : charts' = saved
  /\ Fail("OSError")
  /\ UNCHANGED <<df, analysis_results, reports, report>>

GenerateReport ==
  /\ pc = "report"
  /\ IF ReportRaises(analysis_results)
     THEN Fail("KeyError") /\ UNCHANGED analyzer
     ELSE /\ reports' = reports + 1
          /\ report' = generate_report(analysis_results)
          /\ Step("finish")
          /\ UNCHANGED <<df, analysis_results, charts>>

\* open() of the report file raises.
ReportWriteRaises ==
  /\ pc = "report"
  /\ ~ReportRaises(analysis_results)
  /\ Fail("OSError")
  /\ UNCHANGED analyzer

\* run_full_analysis returned True: main notifies and returns True.
Finish ==
  /\ pc = "finish"
  /\ notifications' = Append(notifications, TRUE)
  /\ returned' = <<TRUE>>
  /\ steps' = Append(steps, pc)
  /\ pc' = "done"
  /\ UNCHANGED <<file, analyzer, error, dashboard>>

Next ==
  \/ NoDataFile
  \/ FindDataFile
  \/ ArchiveOldReports
  \/ ArchiveRaises
  \/ LoadData
  \/ LoadDataFails
  \/ BasicStatistics
  \/ WarehouseAnalysis
  \/ TrendAnalysis
  \/ ProductAnalysis
  \/ AnomalyDetection
  \/ GenerateVisualizations
  \/ VisualizationsRaise
  \/ GenerateReport
  \/ ReportWriteRaises
  \/ Finish

\* One run of streamlit_dashboard.main on a loaded frame, the filters left at
\* their defaults (every date, every warehouse) and the slider at t: the
\* statistics, the warehouse chart and the anomalies are all computed anew.
Render(frame, t) ==
  /\ threshold' = t
  /\ dash_stats' = calculate_basic_stats(frame)
  /\ \E chart \in create_warehouse_chart(frame) : dash_warehouses' = chart
  /\ dash_anomalies' = detect_anomalies(frame, t)

\* The first run.  On an empty frame calculate_basic_stats raises (max() is
\* NaT) and nothing is shown.
DashboardRun ==
  /\ pc = "dashboard"
  /\ dash_df' = CleanFrame(file)
  /\ IF Len(file) = 0
     THEN pc' = "crashed" /\ UNCHANGED <<threshold, dash_stats, dash_warehouses,
                                          dash_anomalies>>
     ELSE pc' = "shown" /\ Render(CleanFrame(file), threshold)
  /\ UNCHANGED <<file, batch>>

\* load_data returns None and main stops.
DashboardLoadFails ==
  /\ pc = "dashboard"
  /\ pc' = "stopped"
  /\ UNCHANGED <<file, batch, dashboard>>

\* Moving the slider reruns main on the cached frame.
MoveSlider ==
  /\ pc = "shown"
  /\ \E t \in Thresholds \ {threshold} : Render(dash_df, t)
  /\ UNCHANGED <<file, pc, batch, dash_df>>

NextDashboard ==
  \/ DashboardRun
  \/ DashboardLoadFails
  \/ MoveSlider

NextEither ==
  \/ Next
  \/ NextDashboard

Spec == Init /\ [][Next]_vars
SpecTrend == InitTrend /\ [][Next]_vars
SpecFlow == InitFlow /\ [][Next]_vars
SpecDashboard == InitDashboard /\ [][NextDashboard]_vars
SpecEither == InitEither /\ [][NextEither]_vars

----------------------------------------------------------------------------
(* What the properties below measure on a frame, computed from its rows     *)
(* directly and not through the grouping operators above.                   *)

RECURSIVE SumOfRows(_, _)
SumOfRows(frame, rows) ==
  IF rows = {} THEN 0
  ELSE LET i == CHOOSE j \in rows : TRUE
       IN (IF frame[i].qty.k = "num" THEN frame[i].qty.v ELSE 0)
          + SumOfRows(frame, rows \ {i})

DatesOf(frame) == {frame[i].date : i \in 1..Len(frame)}
ItemsOf(frame) == {frame[i].item : i \in 1..Len(frame)}
WarehousesOf(frame) == {frame[i].wh : i \in 1..Len(frame)}
ItemDates(frame, item) ==
  {frame[i].date : i \in {j \in 1..Len(frame) : frame[j].item = item}}

\* The numeric quantities of a date, of an item on a date, of a warehouse.
TotalOn(frame, date) ==
  SumOfRows(frame, {i \in 1..Len(frame) : frame[i].date = date})
ItemTotalOn(frame, item, date) ==
  SumOfRows(frame, {i \in 1..Len(frame) : frame[i].item = item /\ frame[i].date = date})
WarehouseTotal(frame, wh) ==
  SumOfRows(frame, {i \in 1..Len(frame) : frame[i].wh = wh})

\* d1 and d2 are consecutive among the dates of S.
Consecutive(S, d1, d2) ==
  /\ d1 \in S
  /\ d2 \in S
  /\ d1 < d2
  /\ ~\E d \in S : d1 < d /\ d < d2

Last(S) == CHOOSE d \in S : \A e \in S : e <= d
Previous(S) == Last(S \ {Last(S)})

Range(seq) == {seq[i] : i \in 1..Len(seq)}
Rules(suggestions) == {suggestions[i].rule : i \in 1..Len(suggestions)}
Has(key) == key \in DOMAIN analysis_results

----------------------------------------------------------------------------
\* C1: the detector emits an event for an (item, consecutive-date pair) exactly
\* when the pair's previous total is not zero and |current - previous| /
\* |previous| * 100 is strictly greater than the threshold; a pair whose
\* previous total is zero never produces an event.
C1_EventsIffDefinedLargeChange ==
  pc = "shown" =>
    {<<e.item, e.date>> : e \in Range(dash_anomalies)}
      = {<<i, d>> \in ItemsOf(dash_df) \X DatesOf(dash_df) :
           \E d0 \in DatesOf(dash_df) :
             /\ Consecutive(ItemDates(dash_df, i), d0, d)
             /\ ItemTotalOn(dash_df, i, d0) # 0
             /\ Abs(ItemTotalOn(dash_df, i, d) - ItemTotalOn(dash_df, i, d0)) * 100
                  > threshold * Abs(ItemTotalOn(dash_df, i, d0))}

\* C2: in the trend frame, a row whose previous total is zero has a null percent
\* delta (no infinity, no number), and a percent delta that is not null has the
\* sign of the delta.
C2_ZeroBaselineRateIsNull ==
  (Has("daily_trend") /\ analysis_results["daily_trend"].cols) =>
    LET rows == analysis_results["daily_trend"].rows
    IN \A i \in 2..Len(rows) :
         /\ rows[i - 1].qty = 0 => IsNa(rows[i].rate)
         /\ ~IsNa(rows[i].rate) =>
              /\ (rows[i].rate.v > 0) = (rows[i].change.v > 0)
              /\ (rows[i].rate.v < 0) = (rows[i].change.v < 0)

\* C3: the trend frame has exactly one row per distinct snapshot date, strictly
\* ascending by date; each row's total is the sum of the quantities of all
\* records of that date (duplicates summed); the first row has no delta, and
\* every later row's delta is its total minus the previous row's total.
C3_DailyTotalsAndDeltas ==
  Has("daily_trend") =>
    LET trend == analysis_results["daily_trend"]
        rows == trend.rows
    IN /\ Len(rows) = Cardinality(DatesOf(df))
       /\ \A i \in 1..Len(rows) :
            /\ rows[i].date \in DatesOf(df)
            /\ rows[i].qty = TotalOn(df, rows[i].date)
       /\ \A i \in 2..Len(rows) : rows[i - 1].date < rows[i].date
       /\ trend.cols = (Len(rows) > 1)
       /\ trend.cols =>
            /\ IsNa(rows[1].change)
            /\ \A i \in 2..Len(rows) :
                 rows[i].change = Num(TotalOn(df, rows[i].date)
                                      - TotalOn(df, rows[i - 1].date))

\* C3 witness: two dates, the first with two records of different items, the
\* delta of the second computed from the summed total.
C3_Witness ==
  /\ Has("daily_trend")
  /\ Len(analysis_results["daily_trend"].rows) = 2
  /\ \E i, j \in 1..Len(df) :
       /\ df[i].item # df[j].item
       /\ df[i].date = 1
       /\ df[j].date = 1
       /\ df[i].qty = Num(100)
       /\ df[j].qty = Num(100)
  /\ analysis_results["daily_trend"].rows[1].qty = 200
  /\ analysis_results["daily_trend"].rows[2].change = Num(-100)

HasNullOn(frame, rows) == \E i \in rows : IsNa(frame[i].qty)

\* C4: a null quantity propagates through aggregation: no per-date, per-warehouse
\* or per-item total is a number when its group holds a null quantity, and an
\* item with a null latest-date quantity is not in the zero-inventory set.
C4_NullPropagates ==
  /\ Has("daily_trend") =>
       \A r \in Range(analysis_results["daily_trend"].rows) :
         ~HasNullOn(df, {i \in 1..Len(df) : df[i].date = r.date})
  /\ Has("warehouse_stats") =>
       \A r \in Range(analysis_results["warehouse_stats"]) :
         ~HasNullOn(df, {i \in 1..Len(df) : df[i].wh = r.wh})
  /\ Has("zero_inventory") =>
       \A r \in Range(analysis_results["zero_inventory"]) :
         ~HasNullOn(df, {i \in 1..Len(df) :
                           df[i].item = r.item /\ df[i].date = Last(DatesOf(df))})

\* C5: the shortage suggestion is made exactly when the latest total's change
\* from a non-zero previous total is below -10 percent, the overstock suggestion
\* exactly when it is above +20 percent; never both, and neither when the
\* previous total is zero.
C5_TrendRiskRules ==
  report # <<>> =>
    LET rules == Rules(report.suggestions)
        two == Cardinality(DatesOf(df)) > 1
        cur == TotalOn(df, Last(DatesOf(df)))
        prev == TotalOn(df, Previous(DatesOf(df)))
    IN /\ ("shortage" \in rules) =
            (two /\ prev > 0 /\ (cur - prev) * 100 < ShortageRate * prev)
       /\ ("overstock" \in rules) =
            (two /\ prev > 0 /\ (cur - prev) * 100 > OverstockRate * prev)
       /\ ~("shortage" \in rules /\ "overstock" \in rules)

RuleOrder(rule) ==
  IF rule = "restock" THEN 1
  ELSE IF rule = "investigate" THEN 2
  ELSE IF rule = "rebalance" THEN 3
  ELSE IF rule \in {"shortage", "overstock"} THEN 4
  ELSE 5

\* C6: the suggestion list is never empty, its entries follow the rule order
\* restock, investigate, rebalance, trend risk, the restock and investigate
\* entries carry the whole zero-inventory and anomaly counts, and the "status
\* normal" entry is there exactly when no rule's condition holds, then alone.
C6_SuggestionList ==
  report # <<>> =>
    LET sg == report.suggestions
        rows == analysis_results["daily_trend"].rows
        latest == rows[Len(rows)].rate
        zeros == Cardinality({i \in ItemsOf(df) :
                   /\ Last(DatesOf(df)) \in ItemDates(df, i)
                   /\ ItemTotalOn(df, i, Last(DatesOf(df))) = 0})
        quiet == /\ zeros = 0
                 /\ Len(analysis_results["anomalies"]) = 0
                 /\ Cardinality(WarehousesOf(df)) <= 1
                 /\ \/ latest.k = "nan"
                    \/ /\ latest.k = "num"
                       /\ latest.v >= ShortageRate * 100
                       /\ latest.v <= OverstockRate * 100
    IN /\ Len(sg) >= 1
       /\ \A i \in 2..Len(sg) : RuleOrder(sg[i - 1].rule) < RuleOrder(sg[i].rule)
       /\ \A i \in 1..Len(sg) :
            /\ sg[i].rule = "restock" => sg[i].count = zeros /\ zeros > 0
            /\ sg[i].rule = "investigate" =>
                 /\ sg[i].count = Len(analysis_results["anomalies"])
                 /\ sg[i].count > 0
       /\ ("normal" \in Rules(sg)) = quiet
       /\ "normal" \in Rules(sg) => Len(sg) = 1

\* C6 witnesses: a report with only the default entry, and (C6_WitnessAll) one
\* where all four rules fired.
C6_Witness ==
  /\ report # <<>>
  /\ Rules(report.suggestions) = {"normal"}

C6_WitnessAll ==
  /\ report # <<>>
  /\ Len(report.suggestions) = 4

\* C7: with more than one warehouse the rebalancing suggestion is made and names
\* a warehouse of maximal total and a different warehouse of minimal total;
\* with one warehouse it is not made.
C7_RebalanceNamesMaxAndMin ==
  report # <<>> =>
    LET sg == report.suggestions
        whs == WarehousesOf(df)
    IN IF Cardinality(whs) > 1
       THEN \E i \in 1..Len(sg) :
              /\ sg[i].rule = "rebalance"
              /\ sg[i].most \in whs
              /\ sg[i].least \in whs
              /\ sg[i].most # sg[i].least
              /\ \A w \in whs :
                   /\ WarehouseTotal(df, w) <= WarehouseTotal(df, sg[i].most)
                   /\ WarehouseTotal(df, w) >= WarehouseTotal(df, sg[i].least)
       ELSE "rebalance" \notin Rules(sg)

AnalysisKeys ==
  {"basic_stats", "warehouse_stats", "daily_trend", "product_stats",
   "zero_inventory", "anomalies"}

\* C8: a run is all-or-nothing: one that returns False has written no report
\* and no chart, one that returns True has written exactly one report, and no
\* analysis step runs unless load_data succeeded.
C8_AllOrNothing ==
  /\ returned = <<FALSE>> => reports = 0 /\ charts = 0
  /\ returned = <<TRUE>> => reports = 1
  /\ df = <<>> => DOMAIN analysis_results = {}

\* C9: main always goes on to return a boolean, and sends exactly one
\* notification, whose flag is the value returned: nothing is notified or
\* returned before the end, no step is blocked before the end and none follows
\* it, no step is begun twice (no retry), and True is returned only after the
\* whole analysis ran and wrote its report.
C9_OneNotificationEqualsResult ==
  /\ pc # "done" => notifications = <<>> /\ returned = <<>> /\ ENABLED Next
  /\ pc = "done" =>
       /\ returned \in {<<TRUE>>, <<FALSE>>}
       /\ notifications = returned
       /\ ~ENABLED Next
  /\ \A i, j \in 1..Len(steps) : steps[i] = steps[j] => i = j
  /\ pc \notin Range(steps)
  /\ returned = <<TRUE>> =>
       /\ DOMAIN analysis_results = AnalysisKeys
       /\ charts = 2
       /\ reports = 1
       /\ steps[Len(steps)] = "finish"

\* C9 witnesses: a failure raised after the analysis, caught and notified; and
\* (C9_WitnessSuccess) a successful run.
C9_Witness ==
  /\ pc = "done"
  /\ returned = <<FALSE>>
  /\ notifications = <<FALSE>>
  /\ Has("anomalies")

C9_WitnessSuccess ==
  /\ pc = "done"
  /\ returned = <<TRUE>>
  /\ notifications = <<TRUE>>

EventKeys(events) == {<<e.item, e.date>> : e \in Range(events)}

\* C10: on one frame, a lower threshold never removes an event: whenever the
\* slider moves down, each (item, date) flagged before is flagged after, and
\* whenever it moves up nothing new is flagged.
C10_LowerThresholdKeepsEvents ==
  [][/\ (pc = "shown" /\ threshold' <= threshold) =>
          EventKeys(dash_anomalies) \subseteq EventKeys(dash_anomalies')
     /\ (pc = "shown" /\ threshold' >= threshold) =>
          EventKeys(dash_anomalies') \subseteq EventKeys(dash_anomalies)]_vars

\* C10 witness: at threshold 20 the dashboard shows the events of threshold 70
\* and more (a +60% change is flagged at 50, not at 70).
C10_Witness ==
  /\ pc = "shown"
  /\ threshold = 20
  /\ detect_anomalies(dash_df, 70) # <<>>
  /\ EventKeys(detect_anomalies(dash_df, 70)) \subseteq EventKeys(dash_anomalies)
  /\ \E e \in Range(dash_anomalies) :
       /\ e.rate = Num(600)
       /\ <<e.item, e.date>> \notin EventKeys(detect_anomalies(dash_df, 70))

RECURSIVE SumOfTotals(_)
SumOfTotals(frame) ==
  IF frame = <<>> THEN 0 ELSE Head(frame).total + SumOfTotals(Tail(frame))

AllRows(frame) == 1..Len(frame)
LatestRows(frame) == {i \in 1..Len(frame) : frame[i].date = Last(DatesOf(frame))}

\* C11: the per-warehouse totals add up to the grand total of the same
\* records: over all records in warehouse_analysis, and over the latest date in
\* the dashboard, where the chart's totals add up to the total inventory shown.
C11_WarehouseTotalsAddUp ==
  /\ Has("warehouse_stats") =>
       SumOfTotals(analysis_results["warehouse_stats"]) = SumOfRows(df, AllRows(df))
  /\ pc = "shown" =>
       /\ SumOfTotals(dash_warehouses) = dash_stats.total
       /\ dash_stats.total = SumOfRows(dash_df, LatestRows(dash_df))

\* C12: for every loaded file with at least one date, one date included, the
\* composition of the report completes (it raises no KeyError), and the trend
\* table of a written report has one row per date in ascending order, with "-"
\* in both change cells of the first row and in every other undefined cell: a
\* rate whose previous total is zero.
C12_ReportTrendTable ==
  /\ error # "KeyError"
  /\ report # <<>> =>
       LET t == report.trend_table
       IN /\ Len(t) = Cardinality(DatesOf(df))
          /\ {t[i].date : i \in 1..Len(t)} = DatesOf(df)
          /\ \A i \in 2..Len(t) : t[i - 1].date < t[i].date
          /\ t[1].change = Dash
          /\ t[1].rate = Dash
          /\ \A i \in 2..Len(t) :
               /\ t[i].change = Num(t[i].total - t[i - 1].total)
               /\ t[i].rate = Dash <=> t[i - 1].total = 0

\* The first row of the frame that holds the key in field f.
FirstRow(frame, f, key) ==
  CHOOSE i \in 1..Len(frame) :
    frame[i][f] = key /\ \A j \in 1..(i - 1) : frame[j][f] # key

NonIncreasing(list) == \A i \in 2..Len(list) : list[i - 1].total >= list[i].total

TiesAsEncountered(list, f) ==
  \A i, j \in 1..Len(list) :
    i < j /\ list[i].total = list[j].total
      => FirstRow(df, f, list[i][f]) < FirstRow(df, f, list[j][f])

Common(events) ==
  [i \in 1..Len(events) |->
     [item |-> events[i].item, date |-> events[i].date, rate |-> events[i].rate,
      qty |-> events[i].qty]]

\* Items in the order of their first rows, dates ascending within an item.
ItemThenDate(events) ==
  \A i, j \in 1..Len(events) :
    i < j =>
      \/ FirstRow(df, "item", events[i].item) < FirstRow(df, "item", events[j].item)
      \/ events[i].item = events[j].item /\ events[i].date < events[j].date

====
